---- MODULE Spec2Model ----
(***************************************************************************)
(* THREE.Terrain: the Terrain constructor and its normalization pipeline   *)
(* (src/src/terrain.ts), the heightmap image codec (src/src/images.ts) and *)
(* the Gaussian-by-box-blur primitive (src/src/weightedBoxBlurGaussian.ts).*)
(*                                                                         *)
(* JavaScript numbers are modelled as exact extended rationals <<n, d>>:   *)
(* d > 0 is the reduced fraction n/d, <<1,0>> is Infinity, <<-1,0>> is     *)
(* -Infinity and <<0,0>> is NaN.  IEEE rounding error is not modelled.     *)
(***************************************************************************)
EXTENDS Integers, Sequences, FiniteSets, TLC

VARIABLES
    \* ---- Terrain construction (terrain.ts) ----
    tOptions,     \* the options record handed to new Terrain(options)
    tPc,          \* position inside the constructor / normalizeTerrain
    tThis,        \* this.widthSegments / this.heightSegments
    tGeometry,    \* which geometry the constructor ended up with
    tCalls,       \* the calls made so far, in order
    tThrew,       \* whether the construction ended with an exception
    \* ---- heightmap codec (images.ts) ----
    cOptions,     \* widthSegments, heightSegments, minHeight, maxHeight
    vertices,     \* the z of each vertex of the plane geometry, row-major
    heightmap,    \* options.heightmap: an image, a canvas, or none
    imgdata,      \* the image data fromHeightmap last read from its canvas
    encoded,      \* the field toHeightmap last encoded (<<>> before)
    cLast,        \* the codec operation that ran last
    cOps,         \* number of codec operations so far
    \* ---- Gaussian box blur (weightedBoxBlurGaussian.ts) ----
    bW, bH,       \* w, h: the width and height of the channel
    bSrc,         \* the source channel (a Float64Array of w * h numbers)
    bTarget,      \* the target channel (a Float64Array of w * h numbers)
    bInput,       \* the source channel as it was before the call
    bCall,        \* the call that ran: its name and arguments
    bWrites,      \* per row (column) of the last pass, the cells it wrote
    bBoxes        \* the box widths boxesForGauss returned (an Int16Array)

tvars == <<tOptions, tPc, tThis, tGeometry, tCalls, tThrew>>

cvars == <<cOptions, vertices, heightmap, imgdata, encoded, cLast, cOps>>

bvars == <<bW, bH, bSrc, bTarget, bInput, bCall, bWrites, bBoxes>>

vars == <<tOptions, tPc, tThis, tGeometry, tCalls, tThrew,
          cOptions, vertices, heightmap, imgdata, encoded, cLast, cOps,
          bW, bH, bSrc, bTarget, bInput, bCall, bWrites, bBoxes>>

(***************************************************************************)
(* Bounds of the model.                                                    *)
(***************************************************************************)
MaxSegments == 2
MaxSteps == 3
MaxOps == 2
MaxDim == 3
MaxRadius == 3
MaxSigmaHalves == 4
MaxBoxes == 3

(***************************************************************************)
(*          JavaScript numbers as exact extended rationals                 *)
(***************************************************************************)
NaN == <<0, 0>>
PosInf == <<1, 0>>
NegInf == <<-1, 0>>

Abs(x) == IF x < 0 THEN -x ELSE x
Sign(x) == IF x > 0 THEN 1 ELSE IF x < 0 THEN -1 ELSE 0
Min2(a, b) == IF a < b THEN a ELSE b
Max2(a, b) == IF a > b THEN a ELSE b

RECURSIVE GCD(_, _)
GCD(a, b) == IF b = 0 THEN a ELSE GCD(b, a % b)

\* The number n/d of two integers, reduced; n/0 is Infinity, -Infinity or NaN.
Frac(n, d) ==
    IF d = 0 THEN <<Sign(n), 0>>
    ELSE LET g == GCD(Abs(n), Abs(d))
         IN <<Sign(d) * (n \div g), Abs(d) \div g>>

Num(n) == <<n, 1>>

IsNaN(a) == a = NaN
IsFinite(a) == a[2] > 0

NumNeg(a) == <<-a[1], a[2]>>

\* a + b
NumAdd(a, b) ==
    IF IsNaN(a) \/ IsNaN(b) THEN NaN
    ELSE IF IsFinite(a) /\ IsFinite(b)
         THEN LET g == GCD(a[2], b[2])
              IN Frac(a[1] * (b[2] \div g) + b[1] * (a[2] \div g),
                      (a[2] \div g) * b[2])
    ELSE IF IsFinite(a) THEN b
    ELSE IF IsFinite(b) THEN a
    ELSE IF a = b THEN a ELSE NaN

\* a - b
NumSub(a, b) == NumAdd(a, NumNeg(b))

\* a * b
NumMul(a, b) ==
    IF IsNaN(a) \/ IsNaN(b) THEN NaN
    ELSE IF IsFinite(a) /\ IsFinite(b)
         THEN LET g1 == GCD(Abs(a[1]), b[2])
                  g2 == GCD(Abs(b[1]), a[2])
              IN Frac((a[1] \div g1) * (b[1] \div g2),
                      (a[2] \div g2) * (b[2] \div g1))
    ELSE IF Sign(a[1]) * Sign(b[1]) = 0 THEN NaN
    ELSE <<Sign(a[1]) * Sign(b[1]), 0>>

\* a / b; a zero divisor is +0, as the difference of two equal numbers is.
NumDiv(a, b) ==
    IF IsNaN(a) \/ IsNaN(b) THEN NaN
    ELSE IF IsFinite(b)
         THEN IF b[1] = 0
              THEN <<Sign(a[1]), 0>>
              ELSE NumMul(a, <<Sign(b[1]) * b[2], Abs(b[1])>>)
    ELSE IF IsFinite(a) THEN Num(0) ELSE NaN

\* a < b as JavaScript compares: false when either is NaN.
NumLess(a, b) ==
    /\ ~IsNaN(a)
    /\ ~IsNaN(b)
    /\ a # b
    /\ LET d == NumSub(a, b) IN d[1] < 0

NumAbs(a) == <<Abs(a[1]), a[2]>>

NumLeq(a, b) == ~IsNaN(a) /\ ~IsNaN(b) /\ (a = b \/ NumLess(a, b))

\* Math.round: the nearest integer, halves towards +Infinity.
MathRound(a) ==
    IF IsFinite(a) THEN Num((2 * a[1] + a[2]) \div (2 * a[2])) ELSE a

\* Storing a number into a Uint8ClampedArray: NaN is 0, the value is clamped
\* to 0..255 and rounded to the nearest integer, halves to even.
ToUint8Clamp(a) ==
    IF IsNaN(a) THEN 0
    ELSE IF a = PosInf THEN 255
    ELSE IF a = NegInf THEN 0
    ELSE IF a[1] <= 0 THEN 0
    ELSE IF a[1] >= 255 * a[2] THEN 255
    ELSE LET q == a[1] \div a[2]
             r2 == 2 * (a[1] - q * a[2])
         IN IF r2 < a[2] THEN q
            ELSE IF r2 > a[2] THEN q + 1
            ELSE IF q % 2 = 0 THEN q ELSE q + 1

(***************************************************************************)
(*                    Terrain constructor, terrain.ts                      *)
(***************************************************************************)
DefaultSegments == 31

Unset == <<>>

\* x || DefaultSegments for a number x: 0 (and NaN) are falsy.
OrDefault(x) == IF x = 0 THEN DefaultSegments ELSE x

SegmentChoices == -1 .. MaxSegments
StepChoices == 0 .. MaxSteps
HeightmapKinds == {"function", "object", "string"}
AfterKinds == {"null", "function"}
MeshKinds == {"none", "matching", "other"}

TerrainOptionsSet ==
    [ widthSegments  : SegmentChoices,
      heightSegments : SegmentChoices,
      turbulent      : BOOLEAN,
      steps          : StepChoices,
      after          : AfterKinds,
      heightmap      : HeightmapKinds,
      mesh           : MeshKinds ]

TerrainStart ==
    /\ tOptions \in TerrainOptionsSet
    /\ tPc = "new"
    /\ tThis = [widthSegments |-> Unset, heightSegments |-> Unset]
    /\ tGeometry = "unset"
    /\ tCalls = <<>>
    /\ tThrew = FALSE

\* terrain.ts 42-53: no validation of the options; the fields of `this`.
ConstructFields ==
    /\ tPc = "new"
    /\ tThis' = [widthSegments  |-> <<OrDefault(tOptions.widthSegments)>>,
                 heightSegments |-> <<OrDefault(tOptions.heightSegments)>>]
    /\ tPc' = "geometry"
    /\ UNCHANGED <<tOptions, tGeometry, tCalls, tThrew>>
    /\ UNCHANGED <<cvars, bvars>>

\* terrain.ts 55-77: reuse the mesh's plane geometry (vertices zeroed) when its
\* segment counts match options.*Segments, else a new PlaneGeometry built from
\* options.widthSegments / options.heightSegments as given.
ConstructGeometry ==
    /\ tPc = "geometry"
    /\ tGeometry' = IF tOptions.mesh = "matching" THEN "reused" ELSE "new"
    /\ tPc' = "heightmap"
    /\ UNCHANGED <<tOptions, tThis, tCalls, tThrew>>
    /\ UNCHANGED <<cvars, bvars>>

\* terrain.ts 80-84: the dispatch on typeof options.heightmap.
HeightmapCall(o) ==
    IF o.heightmap = "object" THEN <<"fromHeightmap">>
    ELSE IF o.heightmap = "function" THEN <<"heightmap">>
    ELSE <<>>

\* terrain.ts 80-85.  fromHeightmap builds an OffscreenCanvas of
\* widthSegments x heightSegments and reads its image data (images.ts 14-29);
\* with a zero or negative size the platform may throw there, which ends the
\* constructor.
ConstructHeightmap ==
    /\ tPc = "heightmap"
    /\ tCalls' = tCalls \o HeightmapCall(tOptions)
    /\ \E throws \in BOOLEAN :
          /\ throws =>
                /\ tOptions.heightmap = "object"
                /\ (tOptions.widthSegments <= 0 \/ tOptions.heightSegments <= 0)
          /\ tThrew' = throws
          /\ tPc' = IF throws THEN "threw" ELSE "turbulence"
    /\ UNCHANGED <<tOptions, tThis, tGeometry>>
    /\ UNCHANGED <<cvars, bvars>>

(***************************************************************************)
(*                     normalizeTerrain, terrain.ts 124-147                *)
(***************************************************************************)
\* terrain.ts 127-129
TurbulenceCalls(o) == IF o.turbulent THEN <<"Turbulence">> ELSE <<>>

\* A variant of StepCalls that steps and smooths from steps = 1 on; C1 tells
\* it from the code.
StepCallsFromOne(o) ==
    IF o.steps # 0 /\ o.steps >= 1 THEN <<"Step", "Smooth">> ELSE <<>>

\* terrain.ts 130-133
StepCalls(o) ==
    IF o.steps # 0 /\ o.steps > 1 THEN <<"Step", "Smooth">> ELSE <<>>

\* terrain.ts 135
ClampCalls(o) == <<"Clamp">>

\* terrain.ts 137-139
AfterCalls(o) == IF o.after = "function" THEN <<"after">> ELSE <<>>

NormalizeTurbulence ==
    /\ tPc = "turbulence"
    /\ tCalls' = tCalls \o TurbulenceCalls(tOptions)
    /\ tPc' = "steps"
    /\ UNCHANGED <<tOptions, tThis, tGeometry, tThrew>>
    /\ UNCHANGED <<cvars, bvars>>

NormalizeSteps ==
    /\ tPc = "steps"
    /\ tCalls' = tCalls \o StepCalls(tOptions)
    /\ tPc' = "clamp"
    /\ UNCHANGED <<tOptions, tThis, tGeometry, tThrew>>
    /\ UNCHANGED <<cvars, bvars>>

NormalizeClamp ==
    /\ tPc = "clamp"
    /\ tCalls' = tCalls \o ClampCalls(tOptions)
    /\ tPc' = "after"
    /\ UNCHANGED <<tOptions, tThis, tGeometry, tThrew>>
    /\ UNCHANGED <<cvars, bvars>>

\* terrain.ts 137-146, then 87-91: the after hook, the geometry update flags and
\* the end of the constructor.
NormalizeAfter ==
    /\ tPc = "after"
    /\ tCalls' = tCalls \o AfterCalls(tOptions)
    /\ tPc' = "done"
    /\ UNCHANGED <<tOptions, tThis, tGeometry, tThrew>>
    /\ UNCHANGED <<cvars, bvars>>

TerrainIdle ==
    /\ tOptions = [widthSegments |-> 1, heightSegments |-> 1,
                   turbulent |-> FALSE, steps |-> 1, after |-> "null",
                   heightmap |-> "function", mesh |-> "none"]
    /\ tPc = "new"
    /\ tThis = [widthSegments |-> Unset, heightSegments |-> Unset]
    /\ tGeometry = "unset"
    /\ tCalls = <<>>
    /\ tThrew = FALSE

(***************************************************************************)
(*                     Heightmap codec, images.ts                          *)
(***************************************************************************)
FullScale == 16777215
ChannelMax == 255
OpaqueAlpha == 255

\* options.minHeight / options.maxHeight: <<h>>, or <<>> when undefined.
Undefined == <<>>
ToNumber(opt) == IF opt = Undefined THEN NaN ELSE Num(opt[1])

\* x << k for a byte x (no 32-bit wrap below 2^24)
ShiftLeft(x, k) == x * 2^k

NoImage == [kind |-> "none", width |-> 0, height |-> 0, data |-> <<>>]

Cols(o) == o.widthSegments + 1
Rows(o) == o.heightSegments + 1

\* ---- fromHeightmap, images.ts 13-61 ----

\* The source index drawImage samples for destination index x when it scales
\* sn source pixels onto dn destination pixels; the platform picks the
\* interpolation, modelled as the nearest source pixel at either edge.
SrcIndex(x, sn, dn, mode) ==
    IF mode = "low" THEN (x * sn) \div dn
    ELSE Min2(sn - 1, ((x + 1) * sn + dn - 1) \div dn - 1)

ResampleModes == {"low", "high"}

\* images.ts 14-30: an OffscreenCanvas of widthSegments x heightSegments, the
\* heightmap drawn over all of it, and its image data.  A pixel is read back
\* as it was drawn, alpha included: the premultiplication of colour by alpha
\* inside the canvas is not modelled, so data holds at least the pixels a
\* platform can return.
DrawImage(src, o, mode) ==
    LET dw == o.widthSegments
        dh == o.heightSegments
    IN [kind |-> "imgdata", width |-> dw, height |-> dh,
        data |-> [p \in 1 .. dw * dh |->
                    LET x == (p - 1) % dw
                        y == (p - 1) \div dw
                    IN src.data[SrcIndex(y, src.height, dh, mode) * src.width
                                + SrcIndex(x, src.width, dw, mode) + 1]]]

\* The first implementation, commented out at images.ts 45-49: the sum of the
\* channels over 765; C2 tells it from the code.
DecodePixelSum(px, o) ==
    LET spread == NumSub(ToNumber(o.maxHeight), ToNumber(o.minHeight))
    IN NumAdd(NumMul(NumDiv(Num(px[1] + px[2] + px[3]), Num(765)), spread),
              ToNumber(o.minHeight))

\* images.ts 21, 54-58: the z decoded from one pixel <<R, G, B, A>>.
DecodePixel(px, o) ==
    LET spread == NumSub(ToNumber(o.maxHeight), ToNumber(o.minHeight))
        v == ShiftLeft(px[1], 16) + ShiftLeft(px[2], 8) + px[3]
    IN NumAdd(NumMul(NumDiv(Num(v), Num(FullScale)), spread),
              ToNumber(o.minHeight))

\* images.ts 37-40: the vertIndex values the two loops visit (0-based);
\* pixelIndex is vertIndex * 4, the pixel with the same linear index.
VertIndices(img) ==
    {x * img.height + y : x \in 0 .. img.width - 1, y \in 0 .. img.height - 1}

\* images.ts 37-60
DecodeInto(verts, img, o) ==
    [i \in 1 .. Len(verts) |->
        IF (i - 1) \in VertIndices(img)
        THEN DecodePixel(img.data[i], o)
        ELSE verts[i]]

\* terrain.ts 65-75: the vertices of a plane geometry at z = 0 (a new
\* PlaneGeometry, or a reused one zeroed).
ZeroVertices(o) == [i \in 1 .. (o.widthSegments + 1) * (o.heightSegments + 1) |-> Num(0)]

\* fromHeightmap(geometry.vertices, options) as its caller runs it
\* (terrain.ts 55-81): options.heightmap is an object, and the vertices are
\* those of a new or zeroed plane geometry.
FromHeightmap ==
    /\ cOps < MaxOps
    /\ heightmap.kind # "none"
    /\ \E mode \in ResampleModes :
          \E img \in {DrawImage(heightmap, cOptions, mode)} :
             /\ imgdata' = img
             /\ vertices' = DecodeInto(ZeroVertices(cOptions), img, cOptions)
    /\ cLast' = "fromHeightmap"
    /\ cOps' = cOps + 1
    /\ UNCHANGED <<cOptions, heightmap, encoded>>
    /\ UNCHANGED <<tvars, bvars>>

\* ---- toHeightmap, images.ts 78-112 ----
RECURSIVE ScanMax(_, _, _)
ScanMax(g, k, max2) ==
    IF k > Len(g) THEN max2
    ELSE ScanMax(g, k + 1, IF NumLess(max2, g[k]) THEN g[k] ELSE max2)

RECURSIVE ScanMin(_, _, _)
ScanMin(g, k, min2) ==
    IF k > Len(g) THEN min2
    ELSE ScanMin(g, k + 1, IF NumLess(g[k], min2) THEN g[k] ELSE min2)

\* images.ts 79-92
EncodeMax(g, o) ==
    LET hasMax == o.maxHeight # Undefined
        hasMin == o.minHeight # Undefined
        max == IF hasMax THEN ToNumber(o.maxHeight) ELSE NegInf
    IN IF ~hasMax \/ ~hasMin
       THEN (IF ~hasMax THEN ScanMax(g, 1, max) ELSE max)
       ELSE max

EncodeMin(g, o) ==
    LET hasMax == o.maxHeight # Undefined
        hasMin == o.minHeight # Undefined
        min == IF hasMin THEN ToNumber(o.minHeight) ELSE PosInf
    IN IF ~hasMax \/ ~hasMin
       THEN (IF ~hasMin THEN ScanMin(g, 1, min) ELSE min)
       ELSE min

\* images.ts 106: Math.round(((g[i].z - min) / spread) * 255)
EncodeValue(z, min, spread) ==
    MathRound(NumMul(NumDiv(NumSub(z, min), spread), Num(ChannelMax)))

\* A variant of EncodePixel that truncates instead of Math.round; C5 tells it
\* from the code.
EncodePixelNoRound(z, min, spread) ==
    LET c == ToUint8Clamp(Num(
                 LET x == NumMul(NumDiv(NumSub(z, min), spread), Num(ChannelMax))
                 IN IF IsFinite(x) THEN x[1] \div x[2] ELSE 0))
    IN <<c, c, c, OpaqueAlpha>>

\* images.ts 106-107: the pixel written for one sample.
EncodePixel(z, min, spread) ==
    LET c == ToUint8Clamp(EncodeValue(z, min, spread))
    IN <<c, c, c, OpaqueAlpha>>

\* images.ts 93-111
EncodeCanvas(g, o) ==
    LET min == EncodeMin(g, o)
        max == EncodeMax(g, o)
        rows == o.heightSegments + 1
        cols == o.widthSegments + 1
        spread == NumSub(max, min)
    IN [kind |-> "canvas", width |-> cols, height |-> rows,
        data |-> [p \in 1 .. rows * cols |->
                    LET row == (p - 1) \div cols
                        col == (p - 1) % cols
                        i == row * cols + col
                    IN EncodePixel(g[i + 1], min, spread)]]

\* toHeightmap(vertices, options); the canvas it returns becomes
\* options.heightmap (it is painted onto options.heightmap when that is a
\* canvas already).
ToHeightmap ==
    /\ cOps < MaxOps
    /\ heightmap' = EncodeCanvas(vertices, cOptions)
    /\ encoded' = vertices
    /\ cLast' = "toHeightmap"
    /\ cOps' = cOps + 1
    /\ UNCHANGED <<cOptions, vertices, imgdata>>
    /\ UNCHANGED <<tvars, bvars>>

\* ---- inputs ----
HeightChoices == {-1, 0, 1}
OptionalHeights == {Undefined} \cup {<<h>> : h \in HeightChoices}

\* Sample values: the halves from one unit below to one unit above the heights.
SampleLevels == {Frac(k, 2) : k \in -4 .. 4}

PixelChoices ==
    { <<0, 0, 0, 255>>, <<255, 255, 255, 255>>, <<255, 255, 255, 0>>,
      <<0, 0, 0, 0>>, <<1, 0, 0, 255>>, <<0, 1, 0, 255>>, <<0, 0, 1, 7>>,
      <<128, 64, 32, 200>> }

BackgroundPixel == <<0, 0, 0, 255>>

CodecOptionsSet ==
    [ widthSegments  : 1 .. MaxSegments,
      heightSegments : 1 .. MaxSegments,
      minHeight      : OptionalHeights,
      maxHeight      : OptionalHeights ]

\* A field that is flat but for one sample.
FieldWith(n, bg, p, lvl) == [i \in 1 .. n |-> IF i = p THEN lvl ELSE bg]

\* Either a terrain exists (to be encoded), or an image does (to be decoded
\* into a geometry whose vertices are still at 0).
CodecStart ==
    /\ cOptions \in CodecOptionsSet
    /\ \/ /\ heightmap = NoImage
          /\ \E lvl \in SampleLevels, p \in 1 .. Cols(cOptions) * Rows(cOptions) :
                vertices = FieldWith(Cols(cOptions) * Rows(cOptions), Num(0), p, lvl)
       \/ /\ vertices = ZeroVertices(cOptions)
          /\ \E extra \in {0, 1}, px \in PixelChoices :
                LET w == cOptions.widthSegments + extra
                    h == cOptions.heightSegments + extra
                IN \E p \in 1 .. w * h :
                      heightmap = [kind |-> "image", width |-> w, height |-> h,
                                   data |-> FieldWith(w * h, BackgroundPixel, p, px)]
    /\ imgdata = NoImage
    /\ encoded = <<>>
    /\ cLast = "init"
    /\ cOps = 0

CodecIdle ==
    /\ cOptions = [widthSegments |-> 1, heightSegments |-> 1,
                   minHeight |-> <<0>>, maxHeight |-> <<1>>]
    /\ vertices = <<>>
    /\ heightmap = NoImage
    /\ imgdata = NoImage
    /\ encoded = <<>>
    /\ cLast = "init"
    /\ cOps = 0

(***************************************************************************)
(*            Gaussian box blur, weightedBoxBlurGaussian.ts                *)
(***************************************************************************)
\* a[i] of a Float64Array, 0-based: outside the array it is undefined, which
\* is NaN in arithmetic.
Rd(a, i) == IF i >= 0 /\ i < Len(a) THEN a[i + 1] ELSE NaN

\* a[i] = v of a Float64Array, 0-based: ignored outside the array.
Wr(a, i, v) == IF i >= 0 /\ i < Len(a) THEN [a EXCEPT ![i + 1] = v] ELSE a

\* The largest k in lo .. hi - 1 with k * k <= fl, given lo * lo <= fl and
\* hi * hi > fl (k * k <= fl is written k <= fl \div k, which cannot overflow).
RECURSIVE SqrtSearch(_, _, _)
SqrtSearch(fl, lo, hi) ==
    IF hi - lo <= 1 THEN lo
    ELSE LET mid == lo + (hi - lo) \div 2
         IN IF mid <= fl \div mid THEN SqrtSearch(fl, mid, hi)
            ELSE SqrtSearch(fl, lo, mid)

\* Math.floor(Math.sqrt(x)): the largest integer k with k * k <= x, for a
\* number x >= 0.
FloorSqrt(x) ==
    LET fl == x[1] \div x[2]
    IN SqrtSearch(fl, 0, fl + 1)

\* Storing an integer into an Int16Array: it wraps modulo 2^16 into
\* -32768 .. 32767.
Int16Modulus == 65536
ToInt16(x) == ((x + Int16Modulus \div 2) % Int16Modulus) - Int16Modulus \div 2

\* A variant of BoxesForGauss with the upper width wu in the first m places;
\* C8 tells it from the code.
BoxesForGaussUpperFirst(sigma, boxCount) ==
    LET wIdeal2 == NumAdd(NumDiv(NumMul(Num(12), NumMul(sigma, sigma)),
                                 Num(boxCount)), Num(1))
        wl0 == FloorSqrt(wIdeal2)
        wl == IF wl0 % 2 = 0 THEN wl0 - 1 ELSE wl0
        wu == wl + 2
        mIdeal == NumDiv(NumSub(NumSub(NumSub(NumMul(Num(12), NumMul(sigma, sigma)),
                                              Num(boxCount * wl * wl)),
                                       Num(4 * boxCount * wl)),
                                Num(3 * boxCount)),
                         Num(-4 * wl - 4))
        m == MathRound(mIdeal)[1]
    IN [i \in 1 .. boxCount |-> IF i - 1 < m THEN wu ELSE wl]

\* weightedBoxBlurGaussian.ts 67-81
BoxesForGauss(sigma, boxCount) ==
    LET wIdeal2 == NumAdd(NumDiv(NumMul(Num(12), NumMul(sigma, sigma)),
                                 Num(boxCount)), Num(1))
        wl0 == FloorSqrt(wIdeal2)
        wl == IF wl0 % 2 = 0 THEN wl0 - 1 ELSE wl0
        wu == wl + 2
        mIdeal == NumDiv(NumSub(NumSub(NumSub(NumMul(Num(12), NumMul(sigma, sigma)),
                                              Num(boxCount * wl * wl)),
                                       Num(4 * boxCount * wl)),
                                Num(3 * boxCount)),
                         Num(-4 * wl - 4))
        m == MathRound(mIdeal)[1]
    IN [i \in 1 .. boxCount |-> ToInt16(IF i - 1 < m THEN wl ELSE wu)]

\* ---- boxBlurH, weightedBoxBlurGaussian.ts 99-118 ----
\* The locals of one row (column) are a record: val, ti, li, ri, j, the
\* target array tcl, and wr, the cells written so far.

\* line 110
RECURSIVE HSum(_, _, _, _)
HSum(scl, ti, r, acc) ==
    IF acc.j < r
    THEN HSum(scl, ti, r, [j |-> acc.j + 1, val |-> NumAdd(acc.val, Rd(scl, ti + acc.j))])
    ELSE acc.val

\* line 114
RECURSIVE HHead(_, _, _, _, _)
HHead(scl, fv, iarr, r, st) ==
    IF st.j <= r
    THEN LET val == NumAdd(st.val, NumSub(Rd(scl, st.ri), fv))
         IN HHead(scl, fv, iarr, r,
                  [val |-> val, ti |-> st.ti + 1, li |-> st.li, ri |-> st.ri + 1,
                   j |-> st.j + 1,
                   tcl |-> Wr(st.tcl, st.ti, NumMul(val, iarr)),
                   wr |-> st.wr \cup {st.ti}])
    ELSE st

\* line 115
RECURSIVE HBody(_, _, _, _, _)
HBody(scl, iarr, w, r, st) ==
    IF st.j < w - r
    THEN LET val == NumAdd(st.val, NumSub(Rd(scl, st.ri), Rd(scl, st.li)))
         IN HBody(scl, iarr, w, r,
                  [val |-> val, ti |-> st.ti + 1, li |-> st.li + 1, ri |-> st.ri + 1,
                   j |-> st.j + 1,
                   tcl |-> Wr(st.tcl, st.ti, NumMul(val, iarr)),
                   wr |-> st.wr \cup {st.ti}])
    ELSE st

\* line 116
RECURSIVE HTail(_, _, _, _, _)
HTail(scl, lv, iarr, w, st) ==
    IF st.j < w
    THEN LET val == NumAdd(st.val, NumSub(lv, Rd(scl, st.li)))
         IN HTail(scl, lv, iarr, w,
                  [val |-> val, ti |-> st.ti + 1, li |-> st.li + 1, ri |-> st.ri,
                   j |-> st.j + 1,
                   tcl |-> Wr(st.tcl, st.ti, NumMul(val, iarr)),
                   wr |-> st.wr \cup {st.ti}])
    ELSE st

\* lines 102-116: row i; the result holds tcl and the cells the row wrote.
BoxBlurHRow(scl, tcl, w, r, i) ==
    LET iarr == Frac(1, r + r + 1)
        ti == i * w
        fv == Rd(scl, ti)
        lv == Rd(scl, ti + w - 1)
        val == HSum(scl, ti, r, [j |-> 0, val |-> NumMul(Num(r + 1), fv)])
        st0 == [val |-> val, ti |-> ti, li |-> ti, ri |-> ti + r, j |-> 0,
                tcl |-> tcl, wr |-> {}]
        st1 == HHead(scl, fv, iarr, r, st0)
        st2 == HBody(scl, iarr, w, r, [st1 EXCEPT !.j = r + 1])
    IN HTail(scl, lv, iarr, w, [st2 EXCEPT !.j = w - r])

\* line 101: the rows in order; acc holds i, tcl and the cells each row wrote.
RECURSIVE BoxBlurHRows(_, _, _, _, _)
BoxBlurHRows(scl, acc, w, h, r) ==
    IF acc.i < h
    THEN LET st == BoxBlurHRow(scl, acc.tcl, w, r, acc.i)
         IN BoxBlurHRows(scl, [i |-> acc.i + 1, tcl |-> st.tcl,
                               writes |-> Append(acc.writes, st.wr)], w, h, r)
    ELSE acc

BoxBlurHPass(scl, tcl, w, h, r) ==
    BoxBlurHRows(scl, [i |-> 0, tcl |-> tcl, writes |-> <<>>], w, h, r)

\* boxBlurH(scl, tcl, w, h, r): tcl afterwards.
BoxBlurH(scl, tcl, w, h, r) == BoxBlurHPass(scl, tcl, w, h, r).tcl

\* ---- boxBlurV, weightedBoxBlurGaussian.ts 125-144 ----
\* line 136
RECURSIVE VSum(_, _, _, _, _)
VSum(scl, ti, w, r, acc) ==
    IF acc.j < r
    THEN VSum(scl, ti, w, r,
              [j |-> acc.j + 1, val |-> NumAdd(acc.val, Rd(scl, ti + acc.j * w))])
    ELSE acc.val

\* line 140
RECURSIVE VHead(_, _, _, _, _, _)
VHead(scl, fv, iarr, w, r, st) ==
    IF st.j <= r
    THEN LET val == NumAdd(st.val, NumSub(Rd(scl, st.ri), fv))
         IN VHead(scl, fv, iarr, w, r,
                  [val |-> val, ti |-> st.ti + w, li |-> st.li, ri |-> st.ri + w,
                   j |-> st.j + 1,
                   tcl |-> Wr(st.tcl, st.ti, NumMul(val, iarr)),
                   wr |-> st.wr \cup {st.ti}])
    ELSE st

\* line 141
RECURSIVE VBody(_, _, _, _, _, _)
VBody(scl, iarr, w, h, r, st) ==
    IF st.j < h - r
    THEN LET val == NumAdd(st.val, NumSub(Rd(scl, st.ri), Rd(scl, st.li)))
         IN VBody(scl, iarr, w, h, r,
                  [val |-> val, ti |-> st.ti + w, li |-> st.li + w, ri |-> st.ri + w,
                   j |-> st.j + 1,
                   tcl |-> Wr(st.tcl, st.ti, NumMul(val, iarr)),
                   wr |-> st.wr \cup {st.ti}])
    ELSE st

\* line 142
RECURSIVE VTail(_, _, _, _, _, _)
VTail(scl, lv, iarr, w, h, st) ==
    IF st.j < h
    THEN LET val == NumAdd(st.val, NumSub(lv, Rd(scl, st.li)))
         IN VTail(scl, lv, iarr, w, h,
                  [val |-> val, ti |-> st.ti + w, li |-> st.li + w, ri |-> st.ri,
                   j |-> st.j + 1,
                   tcl |-> Wr(st.tcl, st.ti, NumMul(val, iarr)),
                   wr |-> st.wr \cup {st.ti}])
    ELSE st

\* lines 128-142: column i.
BoxBlurVColumn(scl, tcl, w, h, r, i) ==
    LET iarr == Frac(1, r + r + 1)
        ti == i
        fv == Rd(scl, ti)
        lv == Rd(scl, ti + w * (h - 1))
        val == VSum(scl, ti, w, r, [j |-> 0, val |-> NumMul(Num(r + 1), fv)])
        st0 == [val |-> val, ti |-> ti, li |-> ti, ri |-> ti + r * w, j |-> 0,
                tcl |-> tcl, wr |-> {}]
        st1 == VHead(scl, fv, iarr, w, r, st0)
        st2 == VBody(scl, iarr, w, h, r, [st1 EXCEPT !.j = r + 1])
    IN VTail(scl, lv, iarr, w, h, [st2 EXCEPT !.j = h - r])

\* line 127
RECURSIVE BoxBlurVColumns(_, _, _, _, _)
BoxBlurVColumns(scl, acc, w, h, r) ==
    IF acc.i < w
    THEN LET st == BoxBlurVColumn(scl, acc.tcl, w, h, r, acc.i)
         IN BoxBlurVColumns(scl, [i |-> acc.i + 1, tcl |-> st.tcl,
                                  writes |-> Append(acc.writes, st.wr)], w, h, r)
    ELSE acc

BoxBlurVPass(scl, tcl, w, h, r) ==
    BoxBlurVColumns(scl, [i |-> 0, tcl |-> tcl, writes |-> <<>>], w, h, r)

\* boxBlurV(scl, tcl, w, h, r): tcl afterwards.
BoxBlurV(scl, tcl, w, h, r) == BoxBlurVPass(scl, tcl, w, h, r).tcl

\* ---- boxBlur, weightedBoxBlurGaussian.ts 88-92 ----
\* scl and tcl afterwards: tcl becomes a copy of scl, the horizontal pass
\* reads tcl and writes scl, the vertical pass reads scl and writes tcl.
BoxBlur(scl, tcl, w, h, r) ==
    LET copy == [i \in 1 .. Len(tcl) |-> IF i <= Len(scl) THEN scl[i] ELSE tcl[i]]
        scl1 == BoxBlurH(copy, scl, w, h, r)
        tcl1 == BoxBlurV(scl1, copy, w, h, r)
    IN [scl |-> scl1, tcl |-> tcl1]

\* ---- gaussianBoxBlur, weightedBoxBlurGaussian.ts 51-58 ----
\* lines 54-56; st holds i, src and target.
RECURSIVE GaussLoop(_, _, _, _, _)
GaussLoop(st, w, h, boxes, boxCount) ==
    IF st.i < boxCount
    THEN LET b == BoxBlur(st.src, st.target, w, h, (boxes[st.i + 1] - 1) \div 2)
         IN GaussLoop([i |-> st.i + 1, src |-> b.scl, target |-> b.tcl],
                      w, h, boxes, boxCount)
    ELSE st

\* src and target afterwards; target is the value returned.
GaussianBoxBlur(src, w, h, radius, boxCount) ==
    LET target == [i \in 1 .. Len(src) |-> Num(0)]
        boxes == BoxesForGauss(radius, boxCount)
    IN GaussLoop([i |-> 0, src |-> src, target |-> target], w, h, boxes, boxCount)

\* ---- calls ----
NoCall == [name |-> "none", r |-> 0, radius |-> Num(0), boxCount |-> 0]

CallBoxBlurH ==
    /\ bCall = NoCall
    /\ \E r \in 0 .. MaxRadius :
          \E res \in {BoxBlurHPass(bSrc, bTarget, bW, bH, r)} :
             /\ bTarget' = res.tcl
             /\ bWrites' = res.writes
             /\ bCall' = [name |-> "boxBlurH", r |-> r, radius |-> Num(0), boxCount |-> 0]
    /\ UNCHANGED <<bW, bH, bSrc, bInput, bBoxes>>
    /\ UNCHANGED <<tvars, cvars>>

CallBoxBlurV ==
    /\ bCall = NoCall
    /\ \E r \in 0 .. MaxRadius :
          \E res \in {BoxBlurVPass(bSrc, bTarget, bW, bH, r)} :
             /\ bTarget' = res.tcl
             /\ bWrites' = res.writes
             /\ bCall' = [name |-> "boxBlurV", r |-> r, radius |-> Num(0), boxCount |-> 0]
    /\ UNCHANGED <<bW, bH, bSrc, bInput, bBoxes>>
    /\ UNCHANGED <<tvars, cvars>>

SigmaChoices == {Frac(k, 2) : k \in 0 .. MaxSigmaHalves}

CallGaussianBoxBlur ==
    /\ bCall = NoCall
    /\ \E radius \in SigmaChoices, boxCount \in 1 .. MaxBoxes :
          \E res \in {GaussianBoxBlur(bSrc, bW, bH, radius, boxCount)} :
             /\ bSrc' = res.src
             /\ bTarget' = res.target
             /\ bBoxes' = BoxesForGauss(radius, boxCount)
             /\ bCall' = [name |-> "gaussianBoxBlur", r |-> 0,
                          radius |-> radius, boxCount |-> boxCount]
    /\ UNCHANGED <<bW, bH, bInput, bWrites>>
    /\ UNCHANGED <<tvars, cvars>>

\* Standard deviations wide enough for a box width beyond 32767.
WideSigmas == {Num(10000), Frac(18919, 2)}

\* boxesForGauss(sigma, boxCount) called on its own.
CallBoxesForGauss ==
    /\ bCall = NoCall
    /\ \E sigma \in SigmaChoices \cup WideSigmas, boxCount \in 1 .. MaxBoxes :
          /\ bBoxes' = BoxesForGauss(sigma, boxCount)
          /\ bCall' = [name |-> "boxesForGauss", r |-> 0,
                       radius |-> sigma, boxCount |-> boxCount]
    /\ UNCHANGED <<bW, bH, bSrc, bTarget, bInput, bWrites>>
    /\ UNCHANGED <<tvars, cvars>>

BlurValues == {-2, 0, 1, 3}

\* A channel of w * h numbers, flat but for one sample, and a new target.
BlurStart ==
    /\ bW \in 1 .. MaxDim
    /\ bH \in 1 .. MaxDim
    /\ \E bg \in {0, 1}, lvl \in BlurValues, p \in 1 .. bW * bH :
          bSrc = FieldWith(bW * bH, Num(bg), p, Num(lvl))
    /\ bTarget = [i \in 1 .. bW * bH |-> Num(0)]
    /\ bInput = bSrc
    /\ bCall = NoCall
    /\ bWrites = <<>>
    /\ bBoxes = <<>>

BlurIdle ==
    /\ bW = 1
    /\ bH = 1
    /\ bSrc = <<>>
    /\ bTarget = <<>>
    /\ bInput = <<>>
    /\ bCall = NoCall
    /\ bWrites = <<>>
    /\ bBoxes = <<>>

(***************************************************************************)
(*                          Specifications                                 *)
(***************************************************************************)
TerrainInit == TerrainStart /\ CodecIdle /\ BlurIdle

TerrainNext ==
    \/ ConstructFields
    \/ ConstructGeometry
    \/ ConstructHeightmap
    \/ NormalizeTurbulence
    \/ NormalizeSteps
    \/ NormalizeClamp
    \/ NormalizeAfter

TerrainSpec == TerrainInit /\ [][TerrainNext]_vars

CodecInit == CodecStart /\ TerrainIdle /\ BlurIdle

CodecNext ==
    \/ FromHeightmap
    \/ ToHeightmap

CodecSpec == CodecInit /\ [][CodecNext]_vars

BlurInit == BlurStart /\ TerrainIdle /\ CodecIdle

BlurNext ==
    \/ CallBoxBlurH
    \/ CallBoxBlurV
    \/ CallGaussianBoxBlur
    \/ CallBoxesForGauss

BlurSpec == BlurInit /\ [][BlurNext]_vars

(***************************************************************************)
(*                              Claims                                     *)
(***************************************************************************)
FilterNames == {"Turbulence", "Step", "Smooth", "Clamp", "after"}

\* The calls normalizeTerrain has made so far: the log without the generator.
NormalizeCalls == SelectSeq(tCalls, LAMBDA c : c \in FilterNames)

\* The sub-sequence of [Turbulence, Step, Smooth, Clamp, after] the options
\* select, written from the claim.
SelectedPipeline(o) ==
    LET all == <<"Turbulence", "Step", "Smooth", "Clamp", "after">>
        on(c) == CASE c = "Turbulence" -> o.turbulent
                   [] c \in {"Step", "Smooth"} -> o.steps > 1
                   [] c = "Clamp" -> TRUE
                   [] c = "after" -> o.after = "function"
    IN SelectSeq(all, on)

IsPrefix(s, t) == Len(s) <= Len(t) /\ SubSeq(t, 1, Len(s)) = s

\* C1: one invocation of normalizeTerrain calls exactly the sub-sequence of
\* [Turbulence, Step, Smooth, Clamp, after-hook] the options select: at every
\* moment the calls made are a prefix of it, and when normalizeTerrain has
\* returned they are the whole of it (no call twice, none out of order).
C1_PipelineOrder ==
    /\ IsPrefix(NormalizeCalls, SelectedPipeline(tOptions))
    /\ tPc = "done" => NormalizeCalls = SelectedPipeline(tOptions)

C1_Witness ==
    /\ tPc = "done"
    /\ tOptions.turbulent
    /\ tOptions.steps > 1
    /\ tOptions.after = "function"
    /\ Len(NormalizeCalls) = 5

\* C10: a Terrain whose widthSegments or heightSegments is zero or negative
\* signals an error before the generator, fromHeightmap or any filter is
\* invoked, and the invalid size is never replaced by another value.
C10_InvalidSizeFailsFast ==
    (tOptions.widthSegments <= 0 \/ tOptions.heightSegments <= 0) =>
        /\ tCalls = <<>>
        /\ tPc \notin {"turbulence", "steps", "clamp", "after", "done"}
        /\ tThis.widthSegments \in {Unset, <<tOptions.widthSegments>>}
        /\ tThis.heightSegments \in {Unset, <<tOptions.heightSegments>>}

(***************************************************************************)
(*                        Claims on the codec                              *)
(***************************************************************************)
HeightsSupplied == cOptions.minHeight # Undefined /\ cOptions.maxHeight # Undefined
MinH == cOptions.minHeight[1]
MaxH == cOptions.maxHeight[1]

\* minHeight + (R*65536 + G*256 + B) / 0xFFFFFF * (maxHeight - minHeight)
ClaimedHeight(R, G, B, min, max) ==
    NumAdd(Num(min), NumDiv(NumMul(Num(R * 65536 + G * 256 + B), Num(max - min)),
                            Num(16777215)))

C3_DecodeGrid ==
    cLast = "fromHeightmap" =>
        /\ imgdata.width = Cols(cOptions)
        /\ imgdata.height = Rows(cOptions)
        /\ \A col \in 0 .. Cols(cOptions) - 1, row \in 0 .. Rows(cOptions) - 1 :
              vertices[row * Cols(cOptions) + col + 1]
                 = DecodePixel(imgdata.data[row * imgdata.width + col + 1], cOptions)

InRange(z, min, max) == NumLeq(Num(min), z) /\ NumLeq(z, Num(max))

\* C4: a field whose samples lie in [minHeight, maxHeight], minHeight <
\* maxHeight, encoded by toHeightmap and decoded by fromHeightmap with the same
\* options comes back with every sample, at its own index, within
\* (maxHeight - minHeight)/255 of the original.
C4_RoundTrip ==
    (/\ cLast = "fromHeightmap"
     /\ heightmap.kind = "canvas"
     /\ HeightsSupplied
     /\ MinH < MaxH
     /\ \A i \in 1 .. Len(encoded) : InRange(encoded[i], MinH, MaxH)) =>
        \A i \in 1 .. Len(encoded) :
            NumLeq(NumAbs(NumSub(encoded[i], vertices[i])), Frac(MaxH - MinH, 255))

Range(f) == {f[i] : i \in 1 .. Len(f)}

\* The smallest / largest sample of a field (NaN when it has none).
SmallestSample(g) ==
    IF \E m \in Range(g) : \A x \in Range(g) : NumLeq(m, x)
    THEN CHOOSE m \in Range(g) : \A x \in Range(g) : NumLeq(m, x)
    ELSE NaN

LargestSample(g) ==
    IF \E m \in Range(g) : \A x \in Range(g) : NumLeq(x, m)
    THEN CHOOSE m \in Range(g) : \A x \in Range(g) : NumLeq(x, m)
    ELSE NaN

\* min and max as C5 states them.
ClaimedMin(g, o) ==
    IF o.minHeight # Undefined THEN Num(o.minHeight[1]) ELSE SmallestSample(g)

ClaimedMax(g, o) ==
    IF o.maxHeight # Undefined THEN Num(o.maxHeight[1]) ELSE LargestSample(g)

\* round((z - min) / (max - min) * 255)
ClaimedChannel(z, min, max) ==
    MathRound(NumDiv(NumMul(NumSub(z, min), Num(255)), NumSub(max, min)))

ImageShape ==
    /\ heightmap.width = cOptions.widthSegments + 1
    /\ heightmap.height = cOptions.heightSegments + 1
    /\ Len(heightmap.data) = Len(vertices)
    /\ \A i \in 1 .. Len(heightmap.data) :
          LET px == heightmap.data[i]
          IN /\ px[1] = px[2]
             /\ px[2] = px[3]
             /\ px[1] \in 0 .. 255
             /\ px[4] = 255

\* The samples of the field lie where the formula of C5 is defined: max # min.
SpreadNonZero ==
    ClaimedMin(vertices, cOptions) # ClaimedMax(vertices, cOptions)

AllFinite(g) == \A i \in 1 .. Len(g) : IsFinite(g[i])

C9_ZeroSpread ==
    (HeightsSupplied /\ MinH = MaxH) =>
        /\ cLast = "fromHeightmap" =>
              \A i \in 1 .. Len(imgdata.data) : vertices[i] = Num(MinH)
        /\ cLast = "toHeightmap" =>
              \A i \in 1 .. Len(vertices) :
                 /\ IsFinite(EncodeValue(vertices[i], Num(MinH), Num(0)))
                 /\ heightmap.data[i][1] = 0

(***************************************************************************)
(*                         Claims on the blur                              *)
(***************************************************************************)
RECURSIVE NumSum(_)
NumSum(s) == IF s = <<>> THEN Num(0) ELSE NumAdd(Head(s), NumSum(Tail(s)))

Clamp(k, lo, hi) == IF k < lo THEN lo ELSE IF k > hi THEN hi ELSE k

\* The mean of the 2r+1 values line[clamp(k, 0, n-1)], k in j-r .. j+r, of a
\* line of n values (0-based j).
EdgeMean(line, j, r) ==
    NumDiv(NumSum([k \in 1 .. 2 * r + 1 |->
                      line[Clamp(j - r + k - 1, 0, Len(line) - 1) + 1]]),
           Num(2 * r + 1))

\* Row i and column i of a channel, 0-based.
RowOf(f, w, i) == [j \in 1 .. w |-> f[i * w + j]]
ColumnOf(f, w, h, i) == [j \in 1 .. h |-> f[(j - 1) * w + i + 1]]

\* C6: for every w >= 1 and r >= 0 (2r+1 > w included) the horizontal pass
\* writes exactly the w cells of each row, and cell j receives the mean of
\* the 2r+1 values of the same row at clamp(k, 0, w-1), k in j-r .. j+r; the
\* vertical pass does the same per column with height h.
C6_BoxBlurEdgeExtension ==
    /\ bCall.name = "boxBlurH" =>
          \A i \in 0 .. bH - 1 :
             /\ bWrites[i + 1] = {i * bW + j : j \in 0 .. bW - 1}
             /\ \A j \in 0 .. bW - 1 :
                   bTarget[i * bW + j + 1] = EdgeMean(RowOf(bInput, bW, i), j, bCall.r)
    /\ bCall.name = "boxBlurV" =>
          \A i \in 0 .. bW - 1 :
             /\ bWrites[i + 1] = {j * bW + i : j \in 0 .. bH - 1}
             /\ \A j \in 0 .. bH - 1 :
                   bTarget[j * bW + i + 1]
                      = EdgeMean(ColumnOf(bInput, bW, bH, i), j, bCall.r)

IsConstant(f) == \A i, j \in 1 .. Len(f) : f[i] = f[j]

\* C7: gaussianBoxBlur of a field whose samples all have the same value c
\* returns a field whose samples all equal c, for any radius >= 0 and any
\* number of passes >= 1, box radii as large as w or h or larger included.
C7_ConstantFieldUnchanged ==
    (bCall.name = "gaussianBoxBlur" /\ IsConstant(bInput)) =>
        \A i \in 1 .. Len(bInput) : bTarget[i] = bInput[i]

BlurOnce(f, w, h, r) ==
    LET zeros == [i \in 1 .. Len(f) |-> Num(0)]
    IN BoxBlurV(BoxBlurH(f, zeros, w, h, r), zeros, w, h, r)

\* The blurs of boxes[k], ..., boxes[Len(boxes)] in sequence, each applied to
\* the complete output of the one before.
RECURSIVE SequentialBlurs(_, _, _, _, _)
SequentialBlurs(f, w, h, boxes, k) ==
    IF k > Len(boxes) THEN f
    ELSE SequentialBlurs(BlurOnce(f, w, h, (boxes[k] - 1) \div 2), w, h, boxes, k + 1)

\* Every box of the call is at most as wide as the field is wide and high.
BoxesFit ==
    \A k \in 1 .. bCall.boxCount :
        BoxesForGauss(bCall.radius, bCall.boxCount)[k] <= Min2(bW, bH)

\* C11: the array gaussianBoxBlur returns after n passes is the result of n
\* sequential 2-D box blurs, each a horizontal pass followed by a vertical
\* pass of that pass's radius over the complete output of the blur before
\* (so the field is blurred vertically n times); stated on the calls whose
\* boxes fit the field, where the passes themselves are as C6 states them.
C11_SequentialBoxBlurs ==
    (bCall.name = "gaussianBoxBlur" /\ BoxesFit) =>
        bTarget = SequentialBlurs(bInput, bW, bH,
                                  BoxesForGauss(bCall.radius, bCall.boxCount), 1)

\* 12 * sigma^2 of the call, and the whole part of 12 * sigma^2 / n + 1.
TwelveSigma2 == NumMul(Num(12), NumMul(bCall.radius, bCall.radius))
IdealWidth2 ==
    LET x == NumAdd(NumDiv(TwelveSigma2, Num(bCall.boxCount)), Num(1))
    IN x[1] \div x[2]

\* |12 * variance - 12 * sigma^2| of m boxes of width wl and n - m of wl + 2.
VarianceGap(m, wl) ==
    LET n == bCall.boxCount
        wu == wl + 2
    IN NumAbs(NumSub(Num(m * wl * wl + (n - m) * wu * wu - n), TwelveSigma2))

\* The widths are m times wl, then n - m times wl + 2, wl the largest odd
\* integer with wl^2 <= 12 * sigma^2 / n + 1, and no other count in 0 .. n
\* brings the total variance closer to sigma^2.
WidthsAre(m, wl) ==
    /\ wl >= 1
    /\ wl % 2 = 1
    /\ wl <= IdealWidth2 \div wl
    /\ wl + 2 > IdealWidth2 \div (wl + 2)
    /\ bBoxes = [i \in 1 .. bCall.boxCount |-> IF i <= m THEN wl ELSE wl + 2]
    /\ \A m2 \in 0 .. bCall.boxCount :
          NumLeq(VarianceGap(m, wl), VarianceGap(m2, wl))

\* C12: for every sigma >= 0 and n >= 1 boxesForGauss returns n odd positive
\* widths, the first m equal to wl and the other n - m to wu = wl + 2, with
\* 0 <= m <= n, wl the largest odd integer not exceeding
\* sqrt(12 * sigma^2 / n + 1) and m the count whose total variance is closest
\* to sigma^2; so every radius (width - 1) / 2 is a non-negative integer.
C12_BoxWidths ==
    bCall.name \in {"boxesForGauss", "gaussianBoxBlur"} =>
        /\ Len(bBoxes) = bCall.boxCount
        /\ \A i \in 1 .. Len(bBoxes) :
              /\ bBoxes[i] >= 1
              /\ bBoxes[i] % 2 = 1
              /\ (bBoxes[i] - 1) \div 2 >= 0
        /\ \E m \in 0 .. bCall.boxCount :
              WidthsAre(m, IF m > 0 THEN bBoxes[1] ELSE bBoxes[1] - 2)

====
